---------------------------- MODULE Spec2Model ----------------------------
(***************************************************************************)
(* Model of the `Async` drain of src/lib.rs: producer threads capture a    *)
(* log record into an owned AsyncRecord and send it over an unbounded mpsc *)
(* channel; one worker thread receives the messages in order and replays   *)
(* each into the wrapped drain; dropping `Async` sends AsyncMsg::Finish    *)
(* and joins the worker.                                                   *)
(***************************************************************************)
EXTENDS Integers, Sequences, FiniteSets, TLC

(***************************************************************************)
(* Bounds of the model.                                                    *)
(***************************************************************************)
\* Number of `log` calls one thread may issue.
MaxLogs == 2

\* Largest number of fields one record emits in the capture study.
MaxFields == 2

\* Largest number of log calls, of all threads together, in the
\* specifications with fairness.
MaxFairCalls == 3

\* The calling threads.  Any of them may also be the one that drops `Async`.
Threads == {"A", "B"}

NoThread == "none"

(***************************************************************************)
(* Values of the closed set of kinds a Serializer is handed                *)
(* (emit_bool .. emit_arguments).  Integers wider than 16 bits are written *)
(* as little-endian sequences of 16-bit limbs; floats as their literals;   *)
(* a fmt::Arguments as <<"Arguments", text it renders to>>.                *)
(***************************************************************************)
Keys == {"k1", "k2"}

KindValues ==
  [ bool      |-> {TRUE, FALSE},
    unit      |-> {"()"},
    none      |-> {"None"},
    char      |-> {"a", "z"},
    u8        |-> {0, 255},
    i8        |-> {-128, 127},
    u16       |-> {0, 65535},
    i16       |-> {-32768, 32767},
    u32       |-> {<<0, 0>>, <<65535, 65535>>},
    i32       |-> {<<0, 32768>>, <<65535, 32767>>},
    f32       |-> {"1.5f32", "NaN_f32"},
    u64       |-> {<<1, 0, 0, 0>>, <<65535, 65535, 65535, 65535>>},
    i64       |-> {<<0, 0, 0, 32768>>, <<65535, 65535, 65535, 32767>>},
    f64       |-> {"2.5f64", "-0.0f64"},
    usize     |-> {<<0, 0, 0, 0>>, <<65535, 65535, 65535, 65535>>},
    isize     |-> {<<0, 0, 0, 32768>>, <<65535, 65535, 65535, 32767>>},
    str       |-> {"", "text"},
    arguments |-> {<<"Arguments", "x=1">>, <<"Arguments", "">>} ]

Kinds == DOMAIN KindValues

\* One call emit_<kind>(key, val) on a Serializer.
Emit(kind, key, val) == [kind |-> kind, key |-> key, val |-> val]

EmitCalls == UNION {{Emit(k, key, v) : key \in Keys, v \in KindValues[k]} : k \in Kinds}

\* fmt::format(args): the text the format arguments render to.
FmtFormat(args) == args[2]

\* Faulty emit_none: a () is stored for the None.
StoredTypeNoneAsUnit(kind) ==
  CASE kind = "unit"      -> "()"
    [] kind = "none"      -> "()"
    [] kind = "str"       -> "String"
    [] kind = "arguments" -> "String"
    [] OTHER              -> kind

\* The Rust type of the value ToSendSerializer stores for each emit_<kind>:
\* emit_none stores a None of Option<()>, emit_str and emit_arguments a String.
StoredType(kind) ==
  CASE kind = "unit"      -> "()"
    [] kind = "none"      -> "Option<()>"
    [] kind = "str"       -> "String"
    [] kind = "arguments" -> "String"
    [] OTHER              -> kind

\* The value ToSendSerializer stores: a copy, or the rendered text.
StoredValue(kind, val) ==
  IF kind = "arguments" THEN FmtFormat(val) ELSE val

\* emit_<kind>(key, val) of ToSendSerializer: the SingleKV(key.to_owned(), val)
\* pushed onto record_values.
ToSendEmit(e) ==
  [key |-> e.key, ty |-> StoredType(e.kind), val |-> StoredValue(e.kind, e.val)]

\* Serialize of the stored value when the worker replays the entry: the emit
\* call the wrapped drain's serializer receives for SingleKV(key, val).
ReplayKV(kv) ==
  CASE kv.ty = "()"         -> Emit("unit", kv.key, kv.val)
    [] kv.ty = "Option<()>" -> Emit("none", kv.key, kv.val)
    [] kv.ty = "String"     -> Emit("str", kv.key, kv.val)
    [] OTHER                -> Emit(kv.ty, kv.key, kv.val)

\* What a serializer can observe of an emit call's value: the value itself,
\* and for format arguments the text they render to.
Observed(e) ==
  [key |-> e.key, val |-> IF e.kind = "arguments" THEN FmtFormat(e.val) ELSE e.val]

(***************************************************************************)
(* The per-call fields of a record (record.values()): each KV either emits *)
(* one field into the serializer or reports a serialization error.         *)
(***************************************************************************)
KVError == [kind |-> "error"]

RECURSIVE SerializeAllSkip(_, _)
\* Faulty capture loop: a KV that reports an error is skipped.
SerializeAllSkip(kvs, ser) ==
  IF kvs = <<>> THEN [ok |-> TRUE, record_values |-> ser]
  ELSE IF Head(kvs) = KVError THEN SerializeAllSkip(Tail(kvs), ser)
  ELSE SerializeAllSkip(Tail(kvs), Append(ser, ToSendEmit(Head(kvs))))

RECURSIVE SerializeAllReversed(_, _)
\* Faulty serializer: each entry is put in front of the earlier ones.
SerializeAllReversed(kvs, ser) ==
  IF kvs = <<>> THEN [ok |-> TRUE, record_values |-> ser]
  ELSE IF Head(kvs) = KVError THEN [ok |-> FALSE, record_values |-> <<>>]
  ELSE SerializeAllReversed(Tail(kvs), <<ToSendEmit(Head(kvs))>> \o ser)


RECURSIVE SerializeAll(_, _)
\* The capture loop of Drain::log: serialize each KV into ToSendSerializer,
\* returning at the first error (try!).  ser is the record_values so far.
SerializeAll(kvs, ser) ==
  IF kvs = <<>> THEN [ok |-> TRUE, record_values |-> ser]
  ELSE IF Head(kvs) = KVError THEN [ok |-> FALSE, record_values |-> <<>>]
  ELSE SerializeAll(Tail(kvs), Append(ser, ToSendEmit(Head(kvs))))


(***************************************************************************)
(* The inputs of a `log` call: a Record (level, message, static location,  *)
(* target, per-call values) and the logger's OwnedKVList.                  *)
(***************************************************************************)
LogInputs ==
  { [ record |-> [ level |-> "Info", msg |-> <<"Arguments", "m1">>,
                   file |-> "a.rs", line |-> 10, column |-> 1,
                   function |-> "f", module |-> "ma", target |-> "ta",
                   values |-> <<Emit("bool", "k1", TRUE)>> ],
      logger_values |-> "ctx1" ],
    [ record |-> [ level |-> "Warning", msg |-> <<"Arguments", "m2">>,
                   file |-> "b.rs", line |-> 20, column |-> 2,
                   function |-> "g", module |-> "mb", target |-> "tb",
                   values |-> <<Emit("arguments", "k2", <<"Arguments", "x=1">>),
                                Emit("u8", "k1", 255)>> ],
      logger_values |-> "ctx2" ],
    [ record |-> [ level |-> "Error", msg |-> <<"Arguments", "m3">>,
                   file |-> "c.rs", line |-> 30, column |-> 3,
                   function |-> "h", module |-> "mc", target |-> "tc",
                   values |-> <<Emit("str", "k1", "text"), KVError>> ],
      logger_values |-> "ctx1" ] }

NoRecord == [call |-> <<>>]

\* Faulty construction: line and column are exchanged.
MakeAsyncRecordSwapped(t, n, in, record_values) ==
  [ call |-> <<t, n>>,
    msg |-> FmtFormat(in.record.msg),
    level |-> in.record.level,
    file |-> in.record.file,
    line |-> in.record.column,
    column |-> in.record.line,
    function |-> in.record.function,
    module |-> in.record.module,
    target |-> in.record.target,
    logger_values |-> in.logger_values,
    record_values |-> record_values ]


\* The AsyncRecord built by Drain::log for call number n of thread t.
\* `call` identifies the log call the record comes from.
MakeAsyncRecord(t, n, in, record_values) ==
  [ call |-> <<t, n>>,
    msg |-> FmtFormat(in.record.msg),
    level |-> in.record.level,
    file |-> in.record.file,
    line |-> in.record.line,
    column |-> in.record.column,
    function |-> in.record.function,
    module |-> in.record.module,
    target |-> in.record.target,
    logger_values |-> in.logger_values,
    record_values |-> record_values ]

MsgRecord(r) == [type |-> "Record", r |-> r]
MsgFinish == [type |-> "Finish"]

\* What the wrapped drain is handed for an AsyncRecord: the RecordStatic,
\* the message, the replayed values and the logger values.
ReplayRecord(r) ==
  [ call |-> r.call,
    msg |-> r.msg,
    level |-> r.level,
    file |-> r.file,
    line |-> r.line,
    column |-> r.column,
    function |-> r.function,
    module |-> r.module,
    target |-> r.target,
    logger_values |-> r.logger_values,
    values |-> [i \in 1..Len(r.record_values) |-> ReplayKV(r.record_values[i])] ]

(***************************************************************************)
(* State.                                                                  *)
(***************************************************************************)
VARIABLES
  pc,          \* per thread: where it is in log / drop
  cur,         \* per thread: the AsyncRecord its log call has built
  inputs,      \* per thread: the inputs of its log calls, in call order
  results,     \* per thread: the results its log calls returned, in call order
  tl_sender,   \* per thread: the Sender cached in tl_sender (NoSender if none)
  ref_lock,    \* the thread holding the ref_sender mutex, or NoThread
  lock_count,  \* per thread: how often it has locked ref_sender
  chan,        \* the mpsc channel: messages sent and not yet received
  rx_alive,    \* the Receiver has not been dropped
  worker,      \* the worker thread: "spawned", "recv", "sink", "stopped",
               \* "panicked"
  sink_log,    \* the calls of drain.log made so far, in order
  sink_active, \* number of drain.log calls in progress
  enqueued,    \* the records sent successfully, in the order of the sends
  dropper,     \* the thread running Drop for Async, or NoThread
  finish_sent, \* result of Drop's send of Finish: "none", "Ok", "Err"
  join,        \* the join handle: "Some", "None" once taken
  tx_alive,    \* the Senders Async owns (ref_sender, tl_sender) are not dropped
  field_in,    \* field studies: the emit call(s) given to ToSendSerializer
  field_kv,    \* field studies: the entry stored / the result of the capture
  field_out,   \* field studies: the emit call(s) the replay made
  field_pc     \* field studies: "input", "captured", "replayed", "off"

vars == <<pc, cur, inputs, results, tl_sender, ref_lock, lock_count, chan,
          rx_alive, worker, sink_log, sink_active, enqueued, dropper,
          finish_sent, join, tx_alive, field_in, field_kv, field_out,
          field_pc>>

fieldVars == <<field_in, field_kv, field_out, field_pc>>

threadVars == <<pc, cur, inputs, results>>

senderVars == <<tl_sender, ref_lock, lock_count>>

workerVars == <<worker, sink_log, sink_active, rx_alive>>

dropVars == <<dropper, finish_sent, join, tx_alive>>

NoSender == [owner |-> NoThread, gen |-> 0]

NoEmit == [kind |-> "nothing"]

\* The state Async::new returns: channel created, worker thread spawned (its
\* closure has not reached rx.recv() yet), tx behind the mutex, empty
\* thread-local cache, join handle stored.
AsyncNew ==
  /\ pc = [t \in Threads |-> "idle"]
  /\ cur = [t \in Threads |-> NoRecord]
  /\ inputs = [t \in Threads |-> <<>>]
  /\ results = [t \in Threads |-> <<>>]
  /\ tl_sender = [t \in Threads |-> NoSender]
  /\ ref_lock = NoThread
  /\ lock_count = [t \in Threads |-> 0]
  /\ chan = <<>>
  /\ rx_alive = TRUE
  /\ worker = "spawned"
  /\ sink_log = <<>>
  /\ sink_active = 0
  /\ enqueued = <<>>
  /\ dropper = NoThread
  /\ finish_sent = "none"
  /\ join = "Some"
  /\ tx_alive = TRUE

Init ==
  /\ AsyncNew
  /\ field_in = NoEmit
  /\ field_kv = NoEmit
  /\ field_out = NoEmit
  /\ field_pc = "off"

(***************************************************************************)
(* The mpsc channel.                                                       *)
(***************************************************************************)
\* Faulty send: the message goes to the front of the queue.
ChanSendFront(q, m) == <<m>> \o q

\* Faulty send: a message sent while another is queued is dropped.
ChanSendLossy(q, m) == IF q = <<>> THEN <<m>> ELSE q

\* Sender::send on a live channel: the message goes to the back of the queue.
ChanSend(q, m) == Append(q, m)

\* Faulty recv: the newest message is taken for the oldest.
ChanFrontNewest(q) == q[Len(q)]

\* Receiver::recv: the message at the front of the queue.
ChanFront(q) == Head(q)

\* The queue after recv has taken its message.
ChanRest(q) == Tail(q)

\* Faulty channel: a queue of capacity one, on which a send waits for room.
ChanHasRoomBounded(q) == Len(q) < 1

\* mpsc::channel() is unbounded: a send never waits for room in the queue.
ChanHasRoom(q) == TRUE

\* Faulty send result: the error of Sender::send is swallowed.
SendResultIgnored(alive) == "Ok"

\* The result of Async::send: Sender::send fails once the Receiver is
\* dropped, and the error is mapped to io::ErrorKind::BrokenPipe.
SendResult(alive) == IF alive THEN "Ok" ELSE "BrokenPipe"

(***************************************************************************)
(* Drain::log for Async.                                                   *)
(***************************************************************************)
\* Faulty exclusivity: a log call may start while Drop runs.
CanLogDuringDrop(t) ==
  /\ pc[t] = "idle"
  /\ Len(inputs[t]) < MaxLogs


\* No log call may start once Drop runs (drop takes &mut self), and a thread
\* runs one call at a time.
CanLog(t) ==
  /\ dropper = NoThread
  /\ pc[t] = "idle"
  /\ Len(inputs[t]) < MaxLogs

\* log, up to the call of self.send: capture the values, build the record.
\* A serialization error returns from log at once.
LogCapture(t) ==
  /\ CanLog(t)
  /\ \E in \in LogInputs :
       LET n == Len(inputs[t]) + 1
           s == SerializeAll(in.record.values, <<>>)
       IN /\ inputs' = [inputs EXCEPT ![t] = Append(@, in)]
          /\ IF s.ok
               THEN /\ cur' = [cur EXCEPT ![t] = MakeAsyncRecord(t, n, in, s.record_values)]
                    /\ pc' = [pc EXCEPT ![t] = "get_sender"]
                    /\ UNCHANGED results
               ELSE /\ results' = [results EXCEPT ![t] = Append(@, "SerializeErr")]
                    /\ UNCHANGED <<cur, pc>>
  /\ UNCHANGED <<senderVars, chan, workerVars, enqueued, dropVars, fieldVars>>

\* Where a thread goes once get_sender has returned: Drop sends Finish,
\* send sends the record.
AfterGetSender(t) == IF dropper = t THEN "drop_send" ELSE "send"

\* Faulty cache: the thread-local slot is never found filled.
TlCachedNever(t) == FALSE

\* tl_sender.get_or finds this thread's Sender.
TlCached(t) == tl_sender[t] # NoSender

\* get_sender, the thread has its Sender: the closure does not run.
GetSenderCached(t) ==
  /\ pc[t] = "get_sender"
  /\ TlCached(t)
  /\ pc' = [pc EXCEPT ![t] = AfterGetSender(t)]
  /\ UNCHANGED <<cur, inputs, results, senderVars, chan, workerVars, enqueued,
                 dropVars, fieldVars>>

\* get_sender, first use by this thread: the closure locks ref_sender.
GetSenderLock(t) ==
  /\ pc[t] = "get_sender"
  /\ ~TlCached(t)
  /\ ref_lock = NoThread
  /\ ref_lock' = t
  /\ lock_count' = [lock_count EXCEPT ![t] = @ + 1]
  /\ pc' = [pc EXCEPT ![t] = "locked"]
  /\ UNCHANGED <<cur, inputs, results, tl_sender, chan, workerVars, enqueued,
                 dropVars, fieldVars>>

\* Faulty closure: the MutexGuard of ref_sender is kept after the clone.
GetSenderCloneHolds(t) ==
  /\ pc[t] = "locked"
  /\ ref_lock = t
  /\ tl_sender' = [tl_sender EXCEPT ![t] = [owner |-> t, gen |-> lock_count[t]]]
  /\ pc' = [pc EXCEPT ![t] = AfterGetSender(t)]
  /\ UNCHANGED <<cur, inputs, results, ref_lock, lock_count, chan, workerVars,
                 enqueued, dropVars, fieldVars>>


\* The closure clones the Sender, the guard is released, and get_or stores
\* the clone in this thread's slot.
GetSenderClone(t) ==
  /\ pc[t] = "locked"
  /\ ref_lock = t
  /\ tl_sender' = [tl_sender EXCEPT ![t] = [owner |-> t, gen |-> lock_count[t]]]
  /\ ref_lock' = NoThread
  /\ pc' = [pc EXCEPT ![t] = AfterGetSender(t)]
  /\ UNCHANGED <<cur, inputs, results, lock_count, chan, workerVars, enqueued,
                 dropVars, fieldVars>>

\* Faulty channel: the Receiver counts only once the worker polls it.
ReceiverExistsOncePolling == rx_alive /\ worker # "spawned"

\* The Receiver exists from mpsc::channel() on (it is moved into the worker's
\* closure) until the worker thread ends.
ReceiverExists == rx_alive

\* Async::send: sender.send(AsyncMsg::Record(r)), and log returns its result.
Send(t) ==
  /\ pc[t] = "send"
  /\ ChanHasRoom(chan)
  /\ chan' = IF ReceiverExists THEN ChanSend(chan, MsgRecord(cur[t])) ELSE chan
  /\ enqueued' = IF ReceiverExists THEN Append(enqueued, cur[t]) ELSE enqueued
  /\ results' = [results EXCEPT ![t] = Append(@, SendResult(ReceiverExists))]
  /\ cur' = [cur EXCEPT ![t] = NoRecord]
  /\ pc' = [pc EXCEPT ![t] = "idle"]
  /\ UNCHANGED <<inputs, senderVars, workerVars, dropVars, fieldVars>>

(***************************************************************************)
(* The worker thread spawned by Async::new.                                *)
(***************************************************************************)
\* Faulty match: every message ends the worker.
IsFinishAny(m) == TRUE

\* The match arm AsyncMsg::Finish.
IsFinish(m) == m.type = "Finish"

\* The spawned thread starts running the closure and reaches rx.recv().
WorkerStart ==
  /\ worker = "spawned"
  /\ worker' = "recv"
  /\ UNCHANGED <<threadVars, senderVars, chan, rx_alive, sink_log, sink_active,
                 enqueued, dropVars, fieldVars>>

\* Faulty consumer: a message is taken while a drain.log call is in progress.
WorkerCanRecvBusy == worker \in {"recv", "sink"} /\ chan # <<>>

\* The worker can take a message: it is at rx.recv() and one is queued.
WorkerCanRecv == worker = "recv" /\ chan # <<>>

\* recv returns a Record: the worker calls drain.log with the replayed record.
WorkerRecord ==
  /\ WorkerCanRecv
  /\ ~IsFinish(ChanFront(chan))
  /\ chan' = ChanRest(chan)
  /\ sink_log' = Append(sink_log, ReplayRecord(ChanFront(chan).r))
  /\ sink_active' = sink_active + 1
  /\ worker' = "sink"
  /\ UNCHANGED <<threadVars, senderVars, rx_alive, enqueued, dropVars, fieldVars>>

\* Faulty loop: the closure returns after the first record.
SinkReturnStops ==
  /\ worker = "sink"
  /\ sink_active' = sink_active - 1
  /\ worker' = "stopped"
  /\ rx_alive' = FALSE
  /\ UNCHANGED <<threadVars, senderVars, chan, sink_log, enqueued, dropVars,
                 fieldVars>>

\* drain.log returns (its error type is Never, so unwrap cannot fail).
SinkReturn ==
  /\ worker = "sink"
  /\ sink_active' = sink_active - 1
  /\ worker' = "recv"
  /\ UNCHANGED <<threadVars, senderVars, chan, rx_alive, sink_log, enqueued,
                 dropVars, fieldVars>>

\* recv returns Finish: the closure returns, dropping rx.
WorkerFinish ==
  /\ WorkerCanRecv
  /\ IsFinish(ChanFront(chan))
  /\ chan' = ChanRest(chan)
  /\ worker' = "stopped"
  /\ rx_alive' = FALSE
  /\ UNCHANGED <<threadVars, senderVars, sink_log, sink_active, enqueued,
                 dropVars, fieldVars>>

\* The wrapped drain breaks its contract and panics inside drain.log: the
\* worker thread unwinds, dropping rx with whatever is still queued.
SinkPanic ==
  /\ worker = "sink"
  /\ sink_active' = sink_active - 1
  /\ worker' = "panicked"
  /\ rx_alive' = FALSE
  /\ UNCHANGED <<threadVars, senderVars, chan, sink_log, enqueued, dropVars,
                 fieldVars>>

(***************************************************************************)
(* Drop for Async.                                                         *)
(***************************************************************************)
\* drop(&mut self) starts on thread t: no log call is running or can start.
DropBegin(t) ==
  /\ dropper = NoThread
  /\ \A u \in Threads : pc[u] = "idle"
  /\ dropper' = t
  /\ pc' = [pc EXCEPT ![t] = "get_sender"]
  /\ UNCHANGED <<cur, inputs, results, senderVars, chan, workerVars, enqueued,
                 finish_sent, join, tx_alive, fieldVars>>

\* Faulty drop: the result of the send is unwrapped, so a failed send stops
\* drop short of the join.
DropSendUnwrap(t) ==
  /\ pc[t] = "drop_send"
  /\ ReceiverExists
  /\ chan' = ChanSend(chan, MsgFinish)
  /\ finish_sent' = "Ok"
  /\ pc' = [pc EXCEPT ![t] = "drop_take"]
  /\ UNCHANGED <<cur, inputs, results, senderVars, workerVars, enqueued,
                 dropper, join, tx_alive, fieldVars>>

\* let _ = sender.send(AsyncMsg::Finish): the result is ignored.
DropSend(t) ==
  /\ pc[t] = "drop_send"
  /\ ChanHasRoom(chan)
  /\ chan' = IF ReceiverExists THEN ChanSend(chan, MsgFinish) ELSE chan
  /\ finish_sent' = IF ReceiverExists THEN "Ok" ELSE "Err"
  /\ pc' = [pc EXCEPT ![t] = "drop_take"]
  /\ UNCHANGED <<cur, inputs, results, senderVars, workerVars, enqueued,
                 dropper, join, tx_alive, fieldVars>>

\* self.join.lock().unwrap().take().unwrap(): the handle leaves the Option.
DropTake(t) ==
  /\ pc[t] = "drop_take"
  /\ join = "Some"
  /\ join' = "None"
  /\ pc' = [pc EXCEPT ![t] = "drop_join"]
  /\ UNCHANGED <<cur, inputs, results, senderVars, chan, workerVars, enqueued,
                 dropper, finish_sent, tx_alive, fieldVars>>

\* Faulty join: drop does not wait for the worker.
WorkerEndedNoWait == TRUE

\* JoinHandle::join returns once the worker thread has ended.
WorkerEnded == worker \in {"stopped", "panicked"}

\* .join() returns and drop with it (the result is ignored).
DropJoin(t) ==
  /\ pc[t] = "drop_join"
  /\ WorkerEnded
  /\ pc' = [pc EXCEPT ![t] = "dropped"]
  /\ UNCHANGED <<cur, inputs, results, senderVars, chan, workerVars, enqueued,
                 dropVars, fieldVars>>

\* After drop returns the fields of Async are dropped: ref_sender and the
\* thread-local Senders go, and with them the last Sender of the channel.
DropFields(t) ==
  /\ pc[t] = "dropped"
  /\ tx_alive' = FALSE
  /\ pc' = [pc EXCEPT ![t] = "freed"]
  /\ UNCHANGED <<cur, inputs, results, senderVars, chan, workerVars, enqueued,
                 dropper, finish_sent, join, fieldVars>>

(***************************************************************************)
(* Specifications.                                                         *)
(***************************************************************************)
\* The wrapped drain keeps its contract: every drain.log call returns.
Next ==
  \/ \E t \in Threads : LogCapture(t)
  \/ \E t \in Threads : GetSenderCached(t)
  \/ \E t \in Threads : GetSenderLock(t)
  \/ \E t \in Threads : GetSenderClone(t)
  \/ \E t \in Threads : Send(t)
  \/ WorkerStart
  \/ WorkerRecord
  \/ SinkReturn
  \/ WorkerFinish
  \/ \E t \in Threads : DropBegin(t)
  \/ \E t \in Threads : DropSend(t)
  \/ \E t \in Threads : DropTake(t)
  \/ \E t \in Threads : DropJoin(t)
  \/ \E t \in Threads : DropFields(t)

Spec == Init /\ [][Next]_vars

\* The wrapped drain may also panic inside drain.log.
NextPanic == Next \/ SinkPanic

SpecPanic == Init /\ [][NextPanic]_vars

\* A step of the worker thread with the drain keeping its contract.
WorkerStep == WorkerStart \/ WorkerRecord \/ SinkReturn \/ WorkerFinish

\* The worker thread is scheduled fairly, and a drain.log call that does not
\* panic returns.
WorkerFairness == WF_vars(WorkerStep)

\* A step of drop on thread t, once drop has begun there.
DropStep(t) ==
  /\ dropper = t
  /\ \/ GetSenderCached(t)
     \/ GetSenderLock(t)
     \/ GetSenderClone(t)
     \/ DropSend(t)
     \/ DropTake(t)
     \/ DropJoin(t)

\* The thread running drop is scheduled fairly.
DropFairness == WF_vars(\E t \in Threads : DropStep(t))

\* Number of log calls the threads have made.
CallsMade ==
  Cardinality({c \in Threads \X (1..MaxLogs) : c[2] <= Len(inputs[c[1]])})

\* A step that starts a log call is taken only below MaxFairCalls calls.
FairCalls == inputs' # inputs => CallsMade < MaxFairCalls

FairNext == Next /\ FairCalls

\* Spec with the worker thread scheduled fairly.
FairSpec == Init /\ [][FairNext]_vars /\ WorkerFairness

FairNextPanic == NextPanic /\ FairCalls

\* SpecPanic with the worker and the dropping thread scheduled fairly.
FairSpecPanic ==
  Init /\ [][FairNextPanic]_vars /\ WorkerFairness /\ DropFairness

(***************************************************************************)
(* One field through ToSendSerializer and back: the emit call made on the  *)
(* ToSendSerializer during capture, the entry it stores, and the emit call *)
(* the worker's replay of that entry makes on the wrapped drain.           *)
(***************************************************************************)
InitField ==
  /\ AsyncNew
  /\ field_in \in EmitCalls
  /\ field_kv = NoEmit
  /\ field_out = NoEmit
  /\ field_pc = "input"

\* kv.serialize(record, &mut ser) in Drain::log.
FieldCapture ==
  /\ field_pc = "input"
  /\ field_kv' = ToSendEmit(field_in)
  /\ field_pc' = "captured"
  /\ UNCHANGED <<threadVars, senderVars, chan, workerVars, enqueued, dropVars,
                 field_in, field_out>>

\* The worker hands the entry to drain.log as a &KV.
FieldReplay ==
  /\ field_pc = "captured"
  /\ field_out' = ReplayKV(field_kv)
  /\ field_pc' = "replayed"
  /\ UNCHANGED <<threadVars, senderVars, chan, workerVars, enqueued, dropVars,
                 field_in, field_kv>>

NextField == FieldCapture \/ FieldReplay

SpecField == InitField /\ [][NextField]_vars

(***************************************************************************)
(* The capture of a whole field sequence, on its own: record.values() is   *)
(* any sequence of up to MaxFields emit calls of any kinds.                *)
(***************************************************************************)
FieldSeqs == UNION {[1..n -> EmitCalls] : n \in 0..MaxFields}

InitCapture ==
  /\ AsyncNew
  /\ field_in \in FieldSeqs
  /\ field_kv = [ok |-> FALSE, record_values |-> <<>>]
  /\ field_out = <<>>
  /\ field_pc = "input"

\* The capture loop of Drain::log followed by ser.finish().
CaptureAll ==
  /\ field_pc = "input"
  /\ field_kv' = SerializeAll(field_in, <<>>)
  /\ field_pc' = "captured"
  /\ UNCHANGED <<threadVars, senderVars, chan, workerVars, enqueued, dropVars,
                 field_in, field_out>>

\* The worker hands the entries, in order, to drain.log as &KV.
ReplayAll ==
  /\ field_pc = "captured"
  /\ field_kv.ok
  /\ field_out' = [i \in 1..Len(field_kv.record_values) |->
                     ReplayKV(field_kv.record_values[i])]
  /\ field_pc' = "replayed"
  /\ UNCHANGED <<threadVars, senderVars, chan, workerVars, enqueued, dropVars,
                 field_in, field_kv>>

NextCapture == CaptureAll \/ ReplayAll

SpecCapture == InitCapture /\ [][NextCapture]_vars


(***************************************************************************)
(* Vocabulary of the properties.                                           *)
(***************************************************************************)
\* Call n of thread t has returned Ok.
ReturnedOk(t, n) == n <= Len(results[t]) /\ results[t][n] = "Ok"

\* The calls of thread t that returned Ok, in the order the thread made them.
OkCalls(t) ==
  LET all == [n \in 1..Len(results[t]) |-> <<t, n>>]
  IN SelectSeq(all, LAMBDA c : results[t][c[2]] = "Ok")

\* The log calls whose records the sink has been invoked with, in order.
SinkCalls == [i \in 1..Len(sink_log) |-> sink_log[i].call]

\* The sink's invocations for records of thread t, in order.
SinkCallsOf(t) == SelectSeq(SinkCalls, LAMBDA c : c[1] = t)

IsPrefix(p, q) == Len(p) <= Len(q) /\ \A i \in 1..Len(p) : p[i] = q[i]

\* The records of the Record messages in the channel, in queue order.
QueuedRecords ==
  LET recs == SelectSeq(chan, LAMBDA m : m.type = "Record")
  IN [i \in 1..Len(recs) |-> recs[i].r]

\* Drop for Async has returned.
TeardownReturned == \E t \in Threads : pc[t] \in {"dropped", "freed"}

\* The worker is Running: it has neither returned nor unwound.
WorkerRunning == worker \in {"spawned", "recv", "sink"}

\* Number of sink invocations made for log call c.
TimesReplayed(c) == Cardinality({i \in 1..Len(sink_log) : sink_log[i].call = c})

AllCalls == {<<t, n>> : t \in Threads, n \in 1..(MaxLogs + 1)}

(***************************************************************************)
(* C1  Order preservation.  For every thread, the sink's invocations for   *)
(* that thread's records are, in order, an initial part of the thread's    *)
(* successfully returned log calls in the order the thread made them: a    *)
(* record is never handed to the sink before an earlier record of the same *)
(* thread, and none is skipped.                                            *)
(***************************************************************************)
C1_OrderPreservation ==
  \A t \in Threads : IsPrefix(SinkCallsOf(t), OkCalls(t))

\* Thread A logged twice, thread B once, teardown is over and the sink has
\* the three records.
C1_Witness ==
  /\ TeardownReturned
  /\ Len(sink_log) = 3
  /\ SinkCallsOf("A") = << <<"A", 1>>, <<"A", 2>> >>
  /\ SinkCallsOf("B") = << <<"B", 1>> >>

C4_GlobalFifo ==
  /\ Len(sink_log) <= Len(enqueued)
  /\ \A i \in 1..Len(sink_log) : sink_log[i] = ReplayRecord(enqueued[i])
  /\ QueuedRecords = SubSeq(enqueued, Len(sink_log) + 1, Len(enqueued))
  /\ \A i \in 1..Len(chan) :
       \/ chan[i] = MsgFinish
       \/ \E j \in 1..Len(enqueued) : chan[i] = MsgRecord(enqueued[j])

\* Records of both threads interleaved: B's record was enqueued between two
\* of A's, all three have been delivered.
C4_Witness ==
  /\ Len(sink_log) >= 3
  /\ sink_log[1].call = <<"A", 1>>
  /\ sink_log[2].call = <<"B", 1>>
  /\ sink_log[3].call = <<"A", 2>>

(***************************************************************************)
(* C5  Thread-local handle reuse.  A thread locks the ref_sender mutex at  *)
(* most once; once its thread-local slot holds a Sender the slot is never  *)
(* written again, and the thread never takes the mutex again (in log or in *)
(* drop).                                                                  *)
(***************************************************************************)
C5_HandleReuse ==
  /\ [](\A t \in Threads : lock_count[t] <= 1)
  /\ [][\A t \in Threads :
          tl_sender[t] # NoSender =>
            /\ tl_sender'[t] = tl_sender[t]
            /\ lock_count'[t] = lock_count[t]
            /\ ref_lock' # t]_vars

\* A thread made two log calls and then ran the teardown, with one lock.
C5_Witness ==
  \E t \in Threads :
    /\ pc[t] = "dropped"
    /\ Len(results[t]) = 2
    /\ ReturnedOk(t, 1) /\ ReturnedOk(t, 2)
    /\ lock_count[t] = 1

\* The log calls whose records are anywhere between send and the sink.
CallsInFlight ==
  {enqueued[i].call : i \in 1..Len(enqueued)}
    \cup {QueuedRecords[i].call : i \in 1..Len(QueuedRecords)}
    \cup {SinkCalls[i] : i \in 1..Len(SinkCalls)}

\* A KV of the sequence reports a serialization error.
HasError(kvs) == \E i \in 1..Len(kvs) : kvs[i] = KVError

(***************************************************************************)
(* C6  log never blocks on the worker.  While the worker is Running, a     *)
(* thread that has reached the send can always take it, the step puts its  *)
(* record at the back of the channel and log returns Ok, however many      *)
(* messages are queued and whether the worker is receiving or inside a     *)
(* sink call; a thread with a cached Sender can always go on to the send.  *)
(***************************************************************************)
C6_LogNeverBlocks ==
  \A t \in Threads :
    /\ (pc[t] = "send" /\ WorkerRunning) =>
         ENABLED (/\ Send(t)
                  /\ results'[t] = Append(results[t], "Ok")
                  /\ chan' = Append(chan, MsgRecord(cur[t]))
                  /\ pc'[t] = "idle")
    /\ (pc[t] = "get_sender" /\ tl_sender[t] # NoSender) =>
         ENABLED GetSenderCached(t)

\* The worker is inside a sink call, three messages are queued behind it
\* and their log calls have all returned.
C6_Witness ==
  /\ worker = "sink"
  /\ Len(chan) = 3
  /\ \A i \in 1..3 : ReturnedOk(chan[i].r.call[1], chan[i].r.call[2])
  /\ \A i \in 1..3 : TimesReplayed(chan[i].r.call) = 0

(***************************************************************************)
(* C7  Delivery failure.  A send attempted after the Receiver is dropped   *)
(* returns BrokenPipe to the caller of log and leaves the channel as it    *)
(* was; a send attempted while the Receiver exists returns Ok and enqueues *)
(* the record.  The record of a call that returned BrokenPipe is never in  *)
(* the channel nor handed to the sink, and the thread holds nothing to     *)
(* retry.                                                                  *)
(***************************************************************************)
C7_DeliveryFailure ==
  /\ [][\A t \in Threads :
          (pc[t] = "send" /\ pc'[t] # "send") =>
            IF rx_alive
              THEN /\ results'[t] = Append(results[t], "Ok")
                   /\ chan' = Append(chan, MsgRecord(cur[t]))
                   /\ pc'[t] = "idle"
              ELSE /\ results'[t] = Append(results[t], "BrokenPipe")
                   /\ chan' = chan
                   /\ cur'[t] = NoRecord
                   /\ pc'[t] = "idle"]_vars
  /\ [](\A t \in Threads : \A n \in 1..Len(results[t]) :
          results[t][n] = "BrokenPipe" => <<t, n>> \notin CallsInFlight)

\* A log call has returned BrokenPipe and a later call of the thread too.
C7_Witness ==
  \E t \in Threads :
    /\ Len(results[t]) = 2
    /\ results[t][1] = "Ok"
    /\ results[t][2] = "BrokenPipe"

C9_CaptureFailureLocal ==
  /\ [][\A t \in Threads :
          (/\ Len(inputs'[t]) = Len(inputs[t]) + 1
           /\ HasError(inputs'[t][Len(inputs'[t])].record.values)) =>
            /\ results'[t] = Append(results[t], "SerializeErr")
            /\ pc'[t] = "idle"
            /\ cur'[t] = NoRecord
            /\ chan' = chan
            /\ enqueued' = enqueued
            /\ UNCHANGED <<workerVars, senderVars, dropVars>>
            /\ \A u \in Threads \ {t} :
                 /\ pc'[u] = pc[u]
                 /\ cur'[u] = cur[u]
                 /\ results'[u] = results[u]]_vars
  /\ [](\A t \in Threads : \A n \in 1..Len(results[t]) :
          /\ results[t][n] = "SerializeErr" <=> HasError(inputs[t][n].record.values)
          /\ results[t][n] = "SerializeErr" => <<t, n>> \notin CallsInFlight)

\* A call failed in capture while another thread's record was queued; that
\* record and the thread's own next call went through to the sink.
C9_Witness ==
  \E t \in Threads : \E u \in Threads \ {t} :
    /\ results[t] = <<"SerializeErr", "Ok">>
    /\ results[u] = <<"Ok">>
    /\ SinkCalls = << <<u, 1>>, <<t, 2>> >>

(***************************************************************************)
(* C10  Field fidelity round trip.  For every kind, key and value, the     *)
(* emit call the replay makes has the key of the emit call captured and a  *)
(* value that reads the same; it is the same emit call, except that format *)
(* arguments come back as the text they render to.                         *)
(***************************************************************************)
C10_FieldRoundTrip ==
  field_pc = "replayed" =>
    /\ field_out.key = field_in.key
    /\ Observed(field_out) = Observed(field_in)
    /\ IF field_in.kind = "arguments"
         THEN field_out.kind = "str"
         ELSE field_out = field_in

\* Format arguments went through capture and replay.
C10_Witness ==
  /\ field_pc = "replayed"
  /\ field_in = Emit("arguments", "k2", <<"Arguments", "x=1">>)
  /\ field_out = Emit("str", "k2", "x=1")

C12_TeardownTerminates ==
  /\ (dropper # NoThread) ~> TeardownReturned
  /\ [](finish_sent = "Err" => WorkerEnded)

\* Drop has returned although its send of Finish failed.
C12_Witness ==
  /\ TeardownReturned
  /\ finish_sent = "Err"
  /\ join = "None"

C14_SingleConsumer ==
  /\ [](sink_active \in {0, 1} /\ (sink_active = 1 <=> worker = "sink"))
  /\ [][/\ sink_log' # sink_log =>
             /\ worker = "recv" /\ worker' = "sink"
             /\ sink_active = 0 /\ sink_active' = 1
             /\ Len(sink_log') = Len(sink_log) + 1
             /\ pc' = pc /\ dropper' = dropper
        /\ Len(chan') < Len(chan) =>
             /\ worker = "recv" /\ sink_active = 0
             /\ chan' = Tail(chan) /\ pc' = pc]_vars

\* A sink call is in progress while two more records wait in the channel and
\* a producer is about to send.
C14_Witness ==
  /\ worker = "sink" /\ sink_active = 1
  /\ Len(chan) >= 2
  /\ \E t \in Threads : pc[t] = "send"

\* The replayed kind k1 is the emitted kind k2, text being replayed as str.
SameKind(k1, k2) == k1 = k2 \/ (k1 = "str" /\ k2 = "arguments")

\* The owned entry kv carries the key and the value of the emitted field e.
Carries(kv, e) ==
  /\ kv.key = e.key
  /\ SameKind(ReplayKV(kv).kind, e.kind)
  /\ kv.val = Observed(e).val

(***************************************************************************)
(* C15  The field capturer is total and order-preserving.  For every       *)
(* sequence of emitted fields of the eighteen kinds, the capture succeeds  *)
(* and record_values has as many entries as fields were emitted, the i-th  *)
(* entry carrying the key and the value of the i-th field; the replay      *)
(* emits as many fields again, in the same order.                          *)
(***************************************************************************)
C15_CaptureTotalOrdered ==
  field_pc \in {"captured", "replayed"} =>
    /\ field_kv.ok
    /\ Len(field_kv.record_values) = Len(field_in)
    /\ \A i \in 1..Len(field_in) : Carries(field_kv.record_values[i], field_in[i])
    /\ field_pc = "replayed" =>
         /\ Len(field_out) = Len(field_in)
         /\ \A i \in 1..Len(field_in) : field_out[i].key = field_in[i].key

\* Two fields of different kinds and keys have been captured and replayed.
C15_Witness ==
  /\ field_pc = "replayed"
  /\ Len(field_in) = MaxFields
  /\ field_in[1].kind = "arguments" /\ field_in[1].key = "k2"
  /\ field_in[2].kind = "none" /\ field_in[2].key = "k1"
  /\ Len(field_out) = MaxFields

\* The inputs of log call c = <<t, n>>.
InputOf(c) == inputs[c[1]][c[2]]

(***************************************************************************)
(* C16  Record content is preserved across the thread boundary.  Every     *)
(* record the worker hands to the sink has the level, message text, file,  *)
(* line, column, function, module and target of the event passed to the    *)
(* log call it comes from, the contextual field list passed to that call,  *)
(* and that call's per-call fields: as many, in the same order, each with  *)
(* its key and value.                                                      *)
(***************************************************************************)
C16_ContentPreserved ==
  \A i \in 1..Len(sink_log) :
    LET s == sink_log[i]
        in == InputOf(s.call)
    IN /\ s.level = in.record.level
       /\ s.msg = FmtFormat(in.record.msg)
       /\ s.file = in.record.file
       /\ s.line = in.record.line
       /\ s.column = in.record.column
       /\ s.function = in.record.function
       /\ s.module = in.record.module
       /\ s.target = in.record.target
       /\ s.logger_values = in.logger_values
       /\ Len(s.values) = Len(in.record.values)
       /\ \A j \in 1..Len(s.values) :
            /\ SameKind(s.values[j].kind, in.record.values[j].kind)
            /\ Observed(s.values[j]) = Observed(in.record.values[j])

\* The sink has been handed records of two threads that differ in every
\* part, one of them with two per-call fields.
C16_Witness ==
  \E i, j \in 1..Len(sink_log) :
    /\ sink_log[i].call[1] # sink_log[j].call[1]
    /\ sink_log[i].level = "Info" /\ sink_log[i].logger_values = "ctx1"
    /\ sink_log[j].level = "Warning" /\ sink_log[j].logger_values = "ctx2"
    /\ Len(sink_log[j].values) = 2
    /\ i > j

\* The log calls whose records were put into the channel, in send order.
EnqueuedCalls == [i \in 1..Len(enqueued) |-> enqueued[i].call]

RecvDisconnected == worker = "recv" /\ chan = <<>> /\ ~tx_alive

FinishPositions == {i \in 1..Len(chan) : chan[i] = MsgFinish}

(***************************************************************************)
(* C19  The shutdown message is always the last message in the channel.    *)
(* The channel holds at most one Finish, and only in its last position;    *)
(* a Finish is put into the channel only when none was sent before; once   *)
(* Drop has begun no other thread is inside log, and once Finish was sent  *)
(* nothing more enters the channel; so the channel is empty whenever the   *)
(* worker is Stopped.                                                      *)
(***************************************************************************)
C19_FinishIsLast ==
  /\ [](FinishPositions \subseteq {Len(chan)})
  /\ [](finish_sent = "none" => FinishPositions = {})
  /\ [](dropper # NoThread => \A u \in Threads \ {dropper} : pc[u] = "idle")
  /\ [](worker = "stopped" => chan = <<>> /\ finish_sent = "Ok")
  /\ [][/\ Len(chan') > Len(chan) => finish_sent = "none"
        /\ finish_sent # "none" => (finish_sent' = finish_sent /\ enqueued' = enqueued)
        /\ (worker # "stopped" /\ worker' = "stopped") => chan' = <<>>]_vars

\* Finish waits in the channel behind three records while the sink handles
\* a fourth.
C19_Witness ==
  /\ worker = "sink"
  /\ Len(chan) = 2 * MaxLogs
  /\ FinishPositions = {Len(chan)}

\* Async and its fields are gone: nothing is left to run.
Finished == \E t \in Threads : pc[t] = "freed"

(***************************************************************************)
(* C20  Teardown never waits on a worker that cannot stop.  Whenever the   *)
(* thread running Drop is at the join and the worker is Running, Finish is *)
(* in the channel.  No thread holds the ref_sender mutex while it sends a  *)
(* record, and the mutex is free while Drop sends Finish, takes the join   *)
(* handle or waits at the join.  And there is no deadlock: while Drop is   *)
(* in progress the worker or the thread running Drop can take a step, and  *)
(* in every state short of the end some thread can.                        *)
(***************************************************************************)
C20_JoinCanReturn ==
  /\ [](\A t \in Threads :
          (pc[t] = "drop_join" /\ WorkerRunning) => FinishPositions # {})
  /\ [](\A t \in Threads :
          /\ pc[t] = "send" => ref_lock # t
          /\ pc[t] \in {"drop_send", "drop_take", "drop_join"} =>
               ref_lock = NoThread)
  /\ []((dropper # NoThread /\ ~TeardownReturned) =>
          ENABLED (WorkerStep \/ \E t \in Threads : DropStep(t)))
  /\ [](Finished \/ ENABLED Next)

\* Drop waits at the join while the worker, not yet at rx.recv(), has four
\* records and Finish ahead of it.
C20_Witness ==
  /\ \E t \in Threads : pc[t] = "drop_join"
  /\ worker = "spawned"
  /\ Len(chan) = 2 * MaxLogs + 1
  /\ FinishPositions = {Len(chan)}

=============================================================================
